---- MODULE Spec2Model ----
(***************************************************************************)
(* Model of src/polaryearplot.py: the year-wheel animation of daily        *)
(* temperatures.  The module-level globals _year_plot_... are the         *)
(* sequencer state; create_max_temp_graphic() builds the artists, selects  *)
(* the frame rate and lets matplotlib call init() once and then            *)
(* animate(t) for t = 0 .. frames-1.                                       *)
(*                                                                         *)
(* Angles are kept exact: a point's theta is the integer k that stands for *)
(* the angle k*pi/365, so 2*pi*(d/365) is 2*d and 2*pi*((d-0.5)/365) is    *)
(* 2*d-1.  Temperatures are integers standing for the float readings.      *)
(* Strings the code takes apart (date_str, output_filename) are sequences  *)
(* of one-character strings.                                               *)
(***************************************************************************)
EXTENDS Integers, Sequences, FiniteSets, TLC

VARIABLES
    pc,                       \* position of the process
    run,                      \* which call of create_max_temp_graphic this is
    data,                     \* the loaded DataFrame (a generated stream)
    target_duration_seconds,  \* argument of create_max_temp_graphic
    output_file,              \* argument of create_max_temp_graphic
    fps,                      \* local fps of create_max_temp_graphic
    t,                        \* next frame number handed to animate
    st,                       \* module globals and the artists of this call
    ref,                      \* the same call made in a fresh interpreter
    written                   \* kinds of output files written by this call

vars == <<pc, run, data, target_duration_seconds, output_file, fps, t, st,
          ref, written>>

----------------------------------------------------------------------------
(* Bounds of the model *)

ShortLen == 4
YearLen == 365
MaxLen == 370
MaxRuns == 2

----------------------------------------------------------------------------
(* Python values *)

\* None where the code holds an array (never read before init() assigns)
None == <<"None">>

PyNone == [type |-> "NoneType", v |-> <<>>]
PyInt(n) == [type |-> "int", v |-> <<n>>]
PyStr(s) == [type |-> "str", v |-> s]

\* Python's != between values that may be an int or a str
PyNe(a, b) == IF a.type # b.type THEN TRUE ELSE a.v # b.v

\* Python's  sub in s  for strings
Contains(s, sub) ==
    \E i \in 0..(Len(s) - Len(sub)) :
        \A j \in 1..Len(sub) : s[i + j] = sub[j]

\* s.split(sep)[0] for a one-character separator
SplitFirst(s, sep) ==
    LET hits == {i \in 1..Len(s) : s[i] = sep}
        stop == IF hits = {} THEN Len(s) + 1
                ELSE CHOOSE i \in hits : \A j \in hits : i <= j
    IN  SubSeq(s, 1, stop - 1)

DigitChar(d) == <<"0", "1", "2", "3", "4", "5", "6", "7", "8", "9">>[d + 1]

RECURSIVE Digits(_, _)
\* n written with at least width digits, zero padded (%Y, %m, %d)
Digits(n, width) ==
    IF n < 10 /\ width <= 1 THEN <<DigitChar(n)>>
    ELSE Append(Digits(n \div 10, width - 1), DigitChar(n % 10))

----------------------------------------------------------------------------
(* Calendar: the dates of the DATE column *)

IsLeapYear(y) == (y % 4 = 0 /\ y % 100 # 0) \/ y % 400 = 0

DaysInYear(y) == IF IsLeapYear(y) THEN 366 ELSE 365

DaysInMonth(y, m) ==
    IF m = 2 THEN (IF IsLeapYear(y) THEN 29 ELSE 28)
    ELSE IF m \in {4, 6, 9, 11} THEN 30 ELSE 31

RECURSIVE YearFrom(_, _)
\* the year of the day n days after January 1 of year y
YearFrom(y, n) ==
    IF n >= DaysInYear(y) THEN YearFrom(y + 1, n - DaysInYear(y)) ELSE y

RECURSIVE DaysBefore(_)
\* the days from January 1, 2019 to January 1 of year y
DaysBefore(y) == IF y > 2019 THEN DaysInYear(y - 1) + DaysBefore(y - 1) ELSE 0

RECURSIVE DateFrom(_, _, _)
\* the date n days after the first day of month m of year y, within year y
DateFrom(y, m, n) ==
    IF n >= DaysInMonth(y, m)
    THEN DateFrom(y, m + 1, n - DaysInMonth(y, m))
    ELSE [year |-> y, month |-> m, day |-> n + 1]

\* the year of the day n days after January 1, 2019
YearOfDayNum(n) == YearFrom(2019, n)

\* the date n days after January 1, 2019
DateOfDayNum(n) ==
    DateFrom(YearOfDayNum(n), 1, n - DaysBefore(YearOfDayNum(n)))

RECURSIVE DayNum(_, _, _)
\* inverse of DateOfDayNum
DayNum(y, m, d) ==
    IF m > 1 THEN DaysInMonth(y, m - 1) + DayNum(y, m - 1, d)
    ELSE DaysBefore(y) + d - 1

\* Timestamp.strftime('%Y-%m-%d')
strftime(date) ==
    Digits(date.year, 4) \o <<"-">> \o Digits(date.month, 2) \o <<"-">>
        \o Digits(date.day, 2)

----------------------------------------------------------------------------
(* The input: data = read_csv(...).interpolate() *)

Starts ==
    { DayNum(2019, 1, 1), DayNum(2019, 6, 15), DayNum(2019, 12, 30),
      DayNum(2020, 1, 1), DayNum(2020, 2, 27), DayNum(2020, 2, 29) }

Lens == {1, ShortLen, YearLen, MaxLen}

Pats == {"const", "wave"}

\* one row per calendar day, in date order
GapFreeStreams ==
    [start : Starts, len : Lens, stride : {1}, pat : Pats]

\* rows that repeat a date, skip days or run backwards in time
IrregularStreams ==
    [start : {DayNum(2019, 12, 30), DayNum(2020, 1, 1)}, len : {ShortLen},
     stride : {0, 2, -1}, pat : {"wave"}]

GapFree(d) == d.stride = 1

data_len == data.len

\* the day number of row i
RowDay(i) == data.start + data.stride * i

\* data["DATE"][i]
DATE(i) == DateOfDayNum(RowDay(i))

\* data["TMAX"][i]
TMAX(i) == IF data.pat = "const" THEN 50 ELSE 40 + ((7 * i) % 23)

Targets == {PyNone, PyInt(3), PyInt(5), PyInt(65)}

MP4 == <<".", "m", "p", "4">>
GIF == <<".", "g", "i", "f">>
PNG == <<".", "p", "n", "g">>

Files == { <<"o">> \o MP4, <<"o">> \o GIF, <<"o">> \o PNG }

\* the calls of create_max_temp_graphic the model makes
Inputs ==
    [data : GapFreeStreams \cup IrregularStreams,
     target : {PyInt(65)}, file : {<<"o">> \o MP4}]
    \cup
    [data : [start : {DayNum(2019, 12, 30)}, len : {ShortLen},
             stride : {1}, pat : {"wave"}],
     target : Targets, file : Files]

----------------------------------------------------------------------------
(* Module globals (lines 44-49) and the artists of one call *)

\* the globals as the import of the module leaves them
ModuleGlobals ==
    [ _year_plot_rs             |-> <<>>,
      _year_plot_rs_all         |-> <<>>,
      _year_plot_current_points |-> None,
      _year_plot_all_points     |-> None,
      _year_plot_current_year   |-> PyInt(0),
      _year_plot_current_day    |-> 0 ]

\* marker, bg, line and title as create_max_temp_graphic creates them, next
\* to the globals of g; an array that was never set holds no colour scalar;
\* flushes counts the calls of bg.set_array
NewArtists(g) ==
    [ _year_plot_rs             |-> g._year_plot_rs,
      _year_plot_rs_all         |-> g._year_plot_rs_all,
      _year_plot_current_points |-> g._year_plot_current_points,
      _year_plot_all_points     |-> g._year_plot_all_points,
      _year_plot_current_year   |-> g._year_plot_current_year,
      _year_plot_current_day    |-> g._year_plot_current_day,
      marker        |-> <<>>,
      bg_segments   |-> <<>>,
      bg_array      |-> <<>>,
      line_segments |-> <<>>,
      line_array    |-> <<>>,
      title         |-> <<>>,
      flushes       |-> 0 ]

----------------------------------------------------------------------------
(* init and animate, the callbacks handed to FuncAnimation *)

init(s) ==
    [s EXCEPT !._year_plot_rs = <<>>,
              !._year_plot_rs_all = <<>>,
              !._year_plot_current_points = <<>>,
              !._year_plot_all_points = <<>>,
              !.line_segments = <<>>,
              !.bg_segments = <<>>,
              !.title = <<>>]

\* np.concatenate([points[:-1], points[1:]], axis=1)
Segments(points) ==
    [i \in 1..(Len(points) - 1) |-> <<points[i], points[i + 1]>>]

\* Flush with the background overwritten by the finished year
FlushReplacesBackground(s) ==
    LET all == s._year_plot_current_points
        rs_all == s._year_plot_rs_all \o s._year_plot_rs
    IN  [s EXCEPT !._year_plot_all_points = all,
                  !._year_plot_rs_all = rs_all,
                  !.bg_segments = Segments(all),
                  !.bg_array = rs_all,
                  !.flushes = @ + 1,
                  !._year_plot_current_points = <<>>,
                  !._year_plot_rs = <<>>,
                  !.line_segments = <<>>]

\* Flush with the finished year put in front of the background
FlushPrepends(s) ==
    LET all == s._year_plot_current_points \o s._year_plot_all_points
        rs_all == s._year_plot_rs_all \o s._year_plot_rs
    IN  [s EXCEPT !._year_plot_all_points = all,
                  !._year_plot_rs_all = rs_all,
                  !.bg_segments = Segments(all),
                  !.bg_array = rs_all,
                  !.flushes = @ + 1,
                  !._year_plot_current_points = <<>>,
                  !._year_plot_rs = <<>>,
                  !.line_segments = <<>>]

\* Flush without the reset of the current colour array (line 265)
FlushKeepsColours(s) ==
    LET all == IF Len(s._year_plot_all_points) = 0
               THEN s._year_plot_current_points
               ELSE s._year_plot_all_points \o s._year_plot_current_points
        rs_all == s._year_plot_rs_all \o s._year_plot_rs
    IN  [s EXCEPT !._year_plot_all_points = all,
                  !._year_plot_rs_all = rs_all,
                  !.bg_segments = Segments(all),
                  !.bg_array = rs_all,
                  !.flushes = @ + 1,
                  !._year_plot_current_points = <<>>,
                  !.line_segments = <<>>]

\* Flush that appends the finished year's own segments and colours
FlushAppendsSegments(s) ==
    LET all == IF Len(s._year_plot_all_points) = 0
               THEN s._year_plot_current_points
               ELSE s._year_plot_all_points \o s._year_plot_current_points
        rs_all == s._year_plot_rs_all \o s._year_plot_rs
    IN  [s EXCEPT !._year_plot_all_points = all,
                  !._year_plot_rs_all = rs_all,
                  !.bg_segments = @ \o Segments(s._year_plot_current_points),
                  !.bg_array = rs_all,
                  !.flushes = @ + 1,
                  !._year_plot_current_points = <<>>,
                  !._year_plot_rs = <<>>,
                  !.line_segments = <<>>]

\* lines 252-266: move the finished year to the background
Flush(s) ==
    LET all == IF Len(s._year_plot_all_points) = 0
               THEN s._year_plot_current_points
               ELSE s._year_plot_all_points \o s._year_plot_current_points
        rs_all == s._year_plot_rs_all \o s._year_plot_rs
    IN  [s EXCEPT !._year_plot_all_points = all,
                  !._year_plot_rs_all = rs_all,
                  !.bg_segments = Segments(all),
                  !.bg_array = rs_all,
                  !.flushes = @ + 1,
                  !._year_plot_current_points = <<>>,
                  !._year_plot_rs = <<>>,
                  !.line_segments = <<>>]

\* YearCheck that takes every sample for the start of a year
YearCheckAlways(s, year) ==
    LET s1 == [s EXCEPT !._year_plot_current_year = PyStr(year),
                        !._year_plot_current_day = 0]
    IN  IF Len(s1._year_plot_current_points) > 0 THEN Flush(s1) ELSE s1

\* YearCheck without the test for an empty current line (line 251)
YearCheckNoGuard(s, year) ==
    IF PyNe(PyStr(year), s._year_plot_current_year)
    THEN Flush([s EXCEPT !._year_plot_current_year = PyStr(year),
                         !._year_plot_current_day = 0])
    ELSE s

\* lines 247-266: a sample of another year starts a new current line
YearCheck(s, year) ==
    IF PyNe(PyStr(year), s._year_plot_current_year)
    THEN LET s1 == [s EXCEPT !._year_plot_current_year = PyStr(year),
                             !._year_plot_current_day = 0]
         IN  IF Len(s1._year_plot_current_points) > 0 THEN Flush(s1) ELSE s1
    ELSE s

\* LeapDay without the decrement of line 277
LeapDayNoDecrement(date_str, day) ==
    IF Contains(date_str, <<"-", "0", "2", "-", "2", "9">>)
    THEN [theta |-> 2 * day - 1, day |-> day + 1]
    ELSE [theta |-> 2 * day, day |-> day + 1]

\* LeapDay with the decrement of line 277 taken before the angle of line 276
LeapDayDecrementFirst(date_str, day) ==
    IF Contains(date_str, <<"-", "0", "2", "-", "2", "9">>)
    THEN [theta |-> 2 * (day - 1) - 1, day |-> (day - 1) + 1]
    ELSE [theta |-> 2 * day, day |-> day + 1]

\* lines 274-281: the angle of the sample and the day counter after it
LeapDay(date_str, day) ==
    IF Contains(date_str, <<"-", "0", "2", "-", "2", "9">>)
    THEN [theta |-> 2 * day - 1, day |-> (day - 1) + 1]
    ELSE [theta |-> 2 * day, day |-> day + 1]

\* AddSample that hands the sink the colour array as it was before the
\* append of line 272
AddSampleArrayBeforeAppend(s, date_str, r) ==
    LET a == LeapDay(date_str, s._year_plot_current_day)
        points == IF Len(s._year_plot_current_points) = 0
                  THEN << <<a.theta, r>> >>
                  ELSE s._year_plot_current_points \o << <<a.theta, r>> >>
        rs == Append(s._year_plot_rs, r)
    IN  [s EXCEPT !._year_plot_rs = rs,
                  !._year_plot_current_day = a.day,
                  !._year_plot_current_points = points,
                  !.title = date_str,
                  !.line_segments = Segments(points),
                  !.line_array = s._year_plot_rs,
                  !.marker = <<a.theta, r>>]

\* AddSample whose marker is set before the new point is computed and so
\* shows the point before it
AddSampleMarkerLags(s, date_str, r) ==
    LET a == LeapDay(date_str, s._year_plot_current_day)
        points == IF Len(s._year_plot_current_points) = 0
                  THEN << <<a.theta, r>> >>
                  ELSE s._year_plot_current_points \o << <<a.theta, r>> >>
        rs == Append(s._year_plot_rs, r)
    IN  [s EXCEPT !._year_plot_rs = rs,
                  !._year_plot_current_day = a.day,
                  !._year_plot_current_points = points,
                  !.title = date_str,
                  !.line_segments = Segments(points),
                  !.line_array = rs,
                  !.marker = IF Len(s._year_plot_current_points) = 0
                             THEN s.marker
                             ELSE s._year_plot_current_points[
                                      Len(s._year_plot_current_points)]]

\* AddSample that passes over a sample whose date is the one already shown
AddSampleSkipsRepeat(s, date_str, r) ==
    IF s.title = date_str
    THEN s
    ELSE LET a == LeapDay(date_str, s._year_plot_current_day)
             points == IF Len(s._year_plot_current_points) = 0
                       THEN << <<a.theta, r>> >>
                       ELSE s._year_plot_current_points \o << <<a.theta, r>> >>
             rs == Append(s._year_plot_rs, r)
         IN  [s EXCEPT !._year_plot_rs = rs,
                       !._year_plot_current_day = a.day,
                       !._year_plot_current_points = points,
                       !.title = date_str,
                       !.line_segments = Segments(points),
                       !.line_array = rs,
                       !.marker = <<a.theta, r>>]

\* lines 271-293: append the sample and hand the current line to the sink
AddSample(s, date_str, r) ==
    LET a == LeapDay(date_str, s._year_plot_current_day)
        points == IF Len(s._year_plot_current_points) = 0
                  THEN << <<a.theta, r>> >>
                  ELSE s._year_plot_current_points \o << <<a.theta, r>> >>
        rs == Append(s._year_plot_rs, r)
    IN  [s EXCEPT !._year_plot_rs = rs,
                  !._year_plot_current_day = a.day,
                  !._year_plot_current_points = points,
                  !.title = date_str,
                  !.line_segments = Segments(points),
                  !.line_array = rs,
                  !.marker = <<a.theta, r>>]

\* Pause that takes the moving dot away
PauseClearsMarker(s) == [s EXCEPT !.marker = <<>>]

\* lines 294-296: a pause frame, only the progress bar moves
Pause(s) == s

animate(s, i) ==
    IF i < data_len
    THEN LET date_str == strftime(DATE(i))
             year == SplitFirst(date_str, "-")
         IN  AddSample(YearCheck(s, year), date_str, TMAX(i))
    ELSE Pause(s)

----------------------------------------------------------------------------
(* create_max_temp_graphic *)

pause_seconds == 5

output_filename == <<"o", "u", "t", "p", "u", "t", "/">> \o output_file

IsMp4 == Contains(output_filename, MP4)
IsGif == Contains(output_filename, GIF)

\* int(a / b) for b # 0: Python truncates the quotient toward zero
IntDiv(a, b) ==
    IF (a >= 0) = (b > 0) THEN (IF a >= 0 THEN a ELSE -a) \div (IF b > 0 THEN b ELSE -b)
    ELSE -((IF a >= 0 THEN a ELSE -a) \div (IF b > 0 THEN b ELSE -b))

\* lines 306-319: the frame rate, or the exception the selection raises
SelectFps ==
    IF PyNe(target_duration_seconds, PyNone)
    THEN LET data_duration_seconds ==
                 target_duration_seconds.v[1] - pause_seconds
             data_frames == data_len
         IN  IF IsMp4
             THEN IF data_duration_seconds = 0
                  THEN [err |-> "ZeroDivisionError", fps |-> 0]
                  ELSE LET q == IntDiv(data_frames, data_duration_seconds)
                       IN  [err |-> "", fps |-> IF q > 1 THEN q ELSE 1]
             ELSE IF IsGif THEN [err |-> "", fps |-> 60]
             ELSE [err |-> "UnboundLocalError", fps |-> 0]
    ELSE [err |-> "", fps |-> 60]

pause_frames == pause_seconds * fps

\* frames without the pause at the end
framesWithoutPause == data_len

\* frames=int(len(data)) + pause_frames
frames == data_len + pause_frames

Init ==
    /\ pc = "call"
    /\ run = 1
    /\ \E in \in Inputs :
          /\ data = in.data
          /\ target_duration_seconds = in.target
          /\ output_file = in.file
    /\ fps = 0
    /\ t = 0
    /\ st = NewArtists(ModuleGlobals)
    /\ ref = NewArtists(ModuleGlobals)
    /\ written = {}

\* lines 51-331: everything up to ani.save
Create ==
    /\ pc = "call"
    /\ st' = NewArtists(st)
    /\ ref' = NewArtists(ModuleGlobals)
    /\ t' = 0
    /\ fps' = SelectFps.fps
    /\ written' = IF SelectFps.err = "" /\ ~IsMp4 /\ ~IsGif THEN {"png"} ELSE {}
    /\ pc' = IF SelectFps.err # "" THEN "error"
             ELSE IF IsMp4 \/ IsGif THEN "init" ELSE "done"
    /\ UNCHANGED <<run, data, target_duration_seconds, output_file>>

\* ani.save draws the initial frame: init()
InitDraw ==
    /\ pc = "init"
    /\ st' = init(st)
    /\ ref' = init(ref)
    /\ pc' = "animate"
    /\ UNCHANGED <<run, data, target_duration_seconds, output_file, fps, t,
                   written>>

\* ani.save draws frame t: animate(t)
Animate ==
    /\ pc = "animate"
    /\ t < frames
    /\ st' = animate(st, t)
    /\ ref' = animate(ref, t)
    /\ t' = t + 1
    /\ UNCHANGED <<pc, run, data, target_duration_seconds, output_file, fps,
                   written>>

\* lines 333-343: the movie is complete, the snapshot is saved
Save ==
    /\ pc = "animate"
    /\ t = frames
    /\ pc' = "done"
    /\ written' = {IF IsMp4 THEN "mp4" ELSE "gif", "png"}
    /\ UNCHANGED <<run, data, target_duration_seconds, output_file, fps, t,
                   st, ref>>

\* the caller calls create_max_temp_graphic again with the same arguments
Rerun ==
    /\ pc = "done"
    /\ run < MaxRuns
    /\ run' = run + 1
    /\ pc' = "call"
    /\ UNCHANGED <<data, target_duration_seconds, output_file, fps, t, st,
                   ref, written>>

Next == Create \/ InitDraw \/ Animate \/ Save \/ Rerun

Spec == Init /\ [][Next]_vars

\* the frame loop of ani.save as it shows on pc and t: the steps of Animate
NextFrame == pc = "animate" /\ t < frames /\ pc' = pc /\ t' = t + 1

\* create_max_temp_graphic runs straight through: ani.save loops over the
\* frames without waiting for anything; only a further call is up to the
\* caller
FairSpec ==
    /\ Spec
    /\ WF_vars(Create)
    /\ WF_vars(InitDraw)
    /\ WF_<<pc, t>>(NextFrame)
    /\ WF_vars(Save)

----------------------------------------------------------------------------
(* Vocabulary of the properties *)

\* the number of samples animate has processed so far in this call
Processed == IF t < data_len THEN t ELSE data_len

\* the calendar year of sample i
YearOf(i) == YearOfDayNum(RowDay(i))

IsFeb29(date) == date.month = 2 /\ date.day = 29

\* a call is drawing frames (init() has run)
Drawing == pc = "animate"

\* the step from this state to the next processes sample t
DataStep == pc = "animate" /\ t < data_len /\ t' = t + 1

\* the step from this state to the next is a pause frame
PauseStep == pc = "animate" /\ t >= data_len /\ t' = t + 1

IsPrefix(a, b) == Len(a) <= Len(b) /\ SubSeq(b, 1, Len(a)) = a

\* how many of the samples 0 .. n-1 fall in calendar year y
CountYears(n, y) == Cardinality({i \in 0..(n - 1) : YearOf(i) = y})

\* line 153: the day index of the first day of each month
month_ticks == <<0, 31, 59, 90, 120, 151, 181, 212, 243, 273, 304, 334>>

\* the place of a date on the 365-day wheel
WheelIndex(date) == month_ticks[date.month] + date.day - 1

StartsJan1 == DATE(0).month = 1 /\ DATE(0).day = 1

----------------------------------------------------------------------------
(* C1 *)

\* C1: on a data step of a gap-free stream whose sample's year differs from
\* the stored current year while the current-year path is non-empty, the
\* background path afterwards is the background path before followed by
\* exactly the current-year path before, and the current-year path afterwards
\* holds only the new year's first sample.
C1_FlushMovesYear ==
    [][ ( /\ DataStep
          /\ GapFree(data)
          /\ PyNe(PyStr(Digits(YearOf(t), 4)), st._year_plot_current_year)
          /\ Len(st._year_plot_current_points) > 0 )
        => /\ st'._year_plot_all_points =
                 st._year_plot_all_points \o st._year_plot_current_points
           /\ st'._year_plot_current_points = << <<0, TMAX(t)>> >> ]_vars

\* a second flush has just happened: the background already held a year
C1_Witness ==
    /\ Drawing
    /\ GapFree(data)
    /\ st.flushes = 2
    /\ Len(st._year_plot_current_points) = 1
    /\ Len(st._year_plot_all_points) > YearLen

----------------------------------------------------------------------------
(* C2 *)

\* C2 as claimed: after every data step the colour scalar of segment i of the
\* current-year batch is the value of the segment's later endpoint.
C2_LaterEndpoint ==
    (Drawing /\ t >= 1) =>
        \A i \in 1..Len(st.line_segments) :
            st.line_array[i] = st.line_segments[i][2][2]

\* C2 amended: after every data step the colour scalar of segment i of the
\* current-year batch is the value of the segment's earlier endpoint.
C2_EarlierEndpoint ==
    (Drawing /\ t >= 1) =>
        \A i \in 1..Len(st.line_segments) :
            st.line_array[i] = st.line_segments[i][1][2]

\* a batch of the second year whose segments join points of different value
C2_Witness ==
    /\ Drawing
    /\ st.flushes >= 1
    /\ Len(st.line_segments) >= 2
    /\ \A i \in 1..Len(st.line_segments) :
          st.line_segments[i][1][2] # st.line_segments[i][2][2]

----------------------------------------------------------------------------
(* C3 *)

\* C3 as claimed: a second run in the same process on the same input shows,
\* frame for frame, the segment batches, colour arrays and marker of the
\* first run (ref replays the first run: the call in a fresh interpreter).
C3_RerunIdentical ==
    (Drawing /\ run = 2) =>
        /\ st.line_segments = ref.line_segments
        /\ st.bg_segments = ref.bg_segments
        /\ st.line_array = ref.line_array
        /\ st.bg_array = ref.bg_array
        /\ st.marker = ref.marker

----------------------------------------------------------------------------
(* C4 *)

\* C4 as claimed: right after init() every piece of sequencer state has its
\* value of a fresh process: empty paths and colour arrays, no stored year,
\* day counter 0.
C4_InitResetsAll ==
    (Drawing /\ t = 0) =>
        /\ st._year_plot_current_points = <<>>
        /\ st._year_plot_all_points = <<>>
        /\ st._year_plot_rs = <<>>
        /\ st._year_plot_rs_all = <<>>
        /\ st._year_plot_current_year = ModuleGlobals._year_plot_current_year
        /\ st._year_plot_current_day = ModuleGlobals._year_plot_current_day

----------------------------------------------------------------------------
(* C5 *)

\* C5: a data step that processes a February 29 sample with day counter d
\* (the counter after the year check) emits the angle 2*pi*(d - 0.5)/365 and
\* leaves the counter at d; a data step on any other date emits 2*pi*d/365
\* and leaves the counter at d + 1.
C5_LeapDayStep ==
    [][ DataStep =>
        LET d == YearCheck(st, SplitFirst(strftime(DATE(t)), "-"))
                     ._year_plot_current_day
        IN  IF IsFeb29(DATE(t))
            THEN /\ st'.marker[1] = 2 * d - 1
                 /\ st'._year_plot_current_day = d
            ELSE /\ st'.marker[1] = 2 * d
                 /\ st'._year_plot_current_day = d + 1 ]_vars

\* the Feb 29 sample has just been drawn after other days of its year
C5_Witness ==
    /\ Drawing
    /\ t >= 1 /\ t <= data_len
    /\ IsFeb29(DATE(t - 1))
    /\ st._year_plot_current_day >= 2
    /\ st.marker[1] = 2 * st._year_plot_current_day - 1

----------------------------------------------------------------------------
(* C6 *)

\* C6 as claimed: in a gap-free stream that starts on a January 1, every
\* date other than February 29 gets the day index of its place on the 365-day
\* wheel, in leap and non-leap years alike (March 1 is 59, December 31 is
\* 364), so no day index exceeds 364.
C6_SameIndexEveryYear ==
    (Drawing /\ GapFree(data) /\ StartsJan1 /\ t >= 1) =>
        LET date == DATE(Processed - 1)
        IN  ~IsFeb29(date) =>
                /\ st.marker[1] = 2 * WheelIndex(date)
                /\ st.marker[1] <= 2 * 364

----------------------------------------------------------------------------
(* C7 *)

\* C7: within one run over a gap-free stream the background path only grows
\* by appending, every data step adds exactly its one point to the points
\* drawn so far, and after every step the background path holds exactly the
\* points of the samples of the years before the current one, in date order,
\* and no point of the current year.
C7_BackgroundAppendOnly ==
    /\ [][ (pc = "animate" /\ pc' = "animate" /\ GapFree(data)) =>
            /\ IsPrefix(st._year_plot_all_points, st'._year_plot_all_points)
            /\ t < data_len =>
                 st'._year_plot_all_points \o st'._year_plot_current_points
                   = Append(st._year_plot_all_points
                               \o st._year_plot_current_points,
                            <<st'.marker[1], TMAX(t)>>) ]_vars
    /\ [] ( (Drawing /\ GapFree(data) /\ t >= 1) =>
              LET cy == YearOf(Processed - 1)
                  before == Cardinality({i \in 0..(Processed - 1) :
                                            YearOf(i) < cy})
              IN  /\ Len(st._year_plot_all_points) = before
                  /\ Len(st._year_plot_current_points) = Processed - before )

\* two years are in the background and the third is being drawn
C7_Witness ==
    /\ Drawing
    /\ GapFree(data)
    /\ st.flushes = 2
    /\ Len(st._year_plot_all_points) > YearLen
    /\ Len(st._year_plot_current_points) >= 2

----------------------------------------------------------------------------
(* C8 *)

SingleYear == GapFree(data) /\ YearOf(0) = YearOf(data_len - 1)

\* C8: in a run over N consecutive days of one calendar year, after the k-th
\* data step the current-year path has k points and the current batch k - 1
\* segments, and the background path and background batch stay empty through
\* the data steps and the pause steps.
C8_SingleYearCounts ==
    (Drawing /\ SingleYear) =>
        /\ Len(st._year_plot_current_points) = Processed
        /\ Len(st.line_segments) = (IF Processed = 0 THEN 0 ELSE Processed - 1)
        /\ st._year_plot_all_points = <<>>
        /\ st.bg_segments = <<>>

\* the pause after a whole year of samples
C8_Witness ==
    /\ Drawing
    /\ SingleYear
    /\ data_len >= YearLen
    /\ t > data_len
    /\ Len(st.line_segments) = data_len - 1

----------------------------------------------------------------------------
(* C9 *)

\* the year boundaries crossed by the samples 0 .. n-1
Boundaries(n) == {i \in 1..(n - 1) : YearOf(i) # YearOf(i - 1)}

\* C9: in a run over a gap-free stream (a fresh run or a later one in the
\* same process) the flushes so far are as many
\* as the year boundaries crossed so far (so a step flushes exactly when its
\* sample's year differs from the previous sample's, never on the first
\* sample); a stream over three calendar years ends with 2 flushes, a
\* background path as long as years 1 and 2 and a current-year path as long
\* as year 3.
C9_FlushPerBoundary ==
    (Drawing /\ GapFree(data)) =>
        /\ st.flushes = Cardinality(Boundaries(Processed))
        /\ (t >= data_len /\ YearOf(data_len - 1) = YearOf(0) + 2) =>
              /\ st.flushes = 2
              /\ Len(st._year_plot_all_points) =
                    CountYears(data_len, YearOf(0))
                      + CountYears(data_len, YearOf(0) + 1)
              /\ Len(st._year_plot_current_points) =
                    CountYears(data_len, YearOf(0) + 2)

\* the end of a stream that covers three calendar years
C9_Witness ==
    /\ Drawing
    /\ run = 1 /\ GapFree(data)
    /\ t >= data_len
    /\ YearOf(data_len - 1) = YearOf(0) + 2
    /\ st.flushes = 2

----------------------------------------------------------------------------
(* C10 *)

\* C10: a pause step (t at or past the number of samples) leaves the paths,
\* the colour arrays, the stored year, the day counter, the batches held by
\* the sink and the marker as they were.
C10_PauseHoldsOutputs ==
    [][ PauseStep => st' = st ]_vars

\* a pause frame has been drawn after the samples of more than one year
C10_Witness ==
    /\ Drawing
    /\ t > data_len
    /\ st.flushes >= 1
    /\ st.marker # <<>>

----------------------------------------------------------------------------
(* C11 *)

\* the points drawn so far in this call
Drawn == Len(st._year_plot_all_points) + Len(st._year_plot_current_points)

\* C11: a run that has started always ends; it makes one data step per
\* sample, for t = 0 .. N-1 in order, then exactly 5 * fps pause steps and
\* then stops; from the first pause step on no step of the run appends a
\* point or flushes.
C11_RunEnds ==
    /\ [] (Drawing => Drawn = Processed)
    /\ [][ pc = "animate" =>
             \/ /\ pc' = "animate"
                /\ t' = t + 1
                /\ t < data_len + 5 * fps
             \/ /\ pc' = "done"
                /\ t' = t
                /\ t = data_len + 5 * fps ]_vars
    /\ [][ (pc = "animate" /\ t >= data_len) =>
             /\ st'._year_plot_current_points = st._year_plot_current_points
             /\ st'._year_plot_all_points = st._year_plot_all_points
             /\ st'.flushes = st.flushes ]_vars
    /\ (pc = "init" ~> pc = "done")

\* a run of several years has made all its pause steps and stopped
C11_Witness ==
    /\ pc = "done"
    /\ written # {"png"}
    /\ fps >= 1
    /\ t = data_len + 5 * fps
    /\ Drawn = data_len
    /\ st.flushes >= 1


----------------------------------------------------------------------------
\* after Create has selected the frame rate for a video file with a target
VideoRateSelected ==
    /\ pc # "call"
    /\ IsMp4
    /\ PyNe(target_duration_seconds, PyNone)

\* C12: for a video (.mp4) output and every integer target duration T,
\* T = 5 and T < 5 included, the selection produces a frame rate: the integer
\* part of N / (T - 5) when that is at least 1, and 1 otherwise.
C12_VideoRateAtLeastOne ==
    VideoRateSelected =>
        LET d == target_duration_seconds.v[1] - pause_seconds
            q == IF d = 0 THEN 0 ELSE IntDiv(data_len, d)
        IN  /\ pc # "error"
            /\ fps >= 1
            /\ fps = IF q >= 1 THEN q ELSE 1

----------------------------------------------------------------------------
\* point j of the background path is sample j - 1 of this call, so segment j
\* of a batch over the whole path joins samples j - 1 and j
JoinsYears(j) == YearOf(j - 1) # YearOf(j)

\* C13 as stated: after every step the background segment batch is the
\* concatenation of the batches of the flushed years, n_k - 1 segments for a
\* year of n_k points, and none of its segments joins the last point of one
\* year to the first point of the next.
C13_PerYearBatches ==
    Drawing =>
        /\ Len(st.bg_segments) = Len(st._year_plot_all_points) - st.flushes
        /\ \A j \in 1..Len(st.bg_segments) :
              \/ st.bg_segments[j] # <<st._year_plot_all_points[j],
                                       st._year_plot_all_points[j + 1]>>
              \/ ~JoinsYears(j)

\* C13, amended: after every step the background segment batch is the batch
\* over the whole background path: one segment for every two neighbouring
\* points, n - 1 for n points, the segment that joins the last point of a
\* flushed year to the first point of the next flushed year included.
C13_WholePathBatch ==
    Drawing =>
        /\ st.bg_segments = Segments(st._year_plot_all_points)
        /\ st.flushes >= 1 =>
              Len(st.bg_segments) = Len(st._year_plot_all_points) - 1
        /\ \A j \in Boundaries(Len(st._year_plot_all_points)) :
              /\ JoinsYears(j)
              /\ st.bg_segments[j] = <<st._year_plot_all_points[j],
                                       st._year_plot_all_points[j + 1]>>

\* two years are in the background, with the segment between them
C13_Witness ==
    /\ Drawing
    /\ st.flushes = 2
    /\ Boundaries(Len(st._year_plot_all_points)) # {}
    /\ Len(st.bg_segments) = Len(st._year_plot_all_points) - 1

----------------------------------------------------------------------------
\* C14 as stated: after every step the current colour array has exactly as
\* many entries as the current segment batch has segments, and the background
\* colour array exactly as many as the background segment batch.
C14_EntryPerSegment ==
    Drawing =>
        /\ Len(st.line_array) = Len(st.line_segments)
        /\ Len(st.bg_array) = Len(st.bg_segments)

\* C14, amended: after every step each colour array has one entry for every
\* point of its path, which is one more than its batch has segments: the
\* current array from the first data step on, the background array from the
\* first flush on.
C14_EntryPerPoint ==
    Drawing =>
        /\ Len(st.line_array) = Len(st._year_plot_current_points)
        /\ Len(st.bg_array) = Len(st._year_plot_all_points)
        /\ t >= 1 => Len(st.line_array) = Len(st.line_segments) + 1
        /\ st.flushes >= 1 => Len(st.bg_array) = Len(st.bg_segments) + 1

\* both batches hold segments, and both arrays one entry more
C14_Witness ==
    /\ Drawing
    /\ st.flushes >= 1
    /\ Len(st.line_segments) >= 1
    /\ Len(st.bg_segments) >= 1
    /\ Len(st.line_array) = Len(st.line_segments) + 1
    /\ Len(st.bg_array) = Len(st.bg_segments) + 1

----------------------------------------------------------------------------
\* the point of the most recently processed sample
LastPoint ==
    st._year_plot_current_points[Len(st._year_plot_current_points)]

\* C15: for every gap-free stream, whatever the date of its first sample, the
\* day index behind the angle of a sample not dated February 29 is the number
\* of days from the most recent January 1 to its date, February 29 not
\* counted.
C15_DaysSinceJan1 ==
    (Drawing /\ GapFree(data) /\ t >= 1) =>
        LET date == DATE(Processed - 1)
        IN  ~IsFeb29(date) => LastPoint[1] = 2 * WheelIndex(date)

----------------------------------------------------------------------------
\* C16: for every gap-free stream, one that starts on February 29 or in the
\* middle of a year included, the day index behind each point's angle (d, or
\* d - 0.5 on February 29) is at least 0 and below 365.
C16_OnTheCircle ==
    (Drawing /\ GapFree(data) /\ t >= 1) =>
        /\ 0 <= LastPoint[1]
        /\ LastPoint[1] < 2 * 365

----------------------------------------------------------------------------
\* a fresh run over a gap-free stream has drawn at least one sample
FreshGapFree == run = 1 /\ Drawing /\ GapFree(data) /\ t >= 1

\* the last three samples drawn are February 28, February 29 and March 1
LeapDayPassed ==
    /\ Processed >= 3
    /\ Len(st._year_plot_current_points) >= 3
    /\ IsFeb29(DATE(Processed - 2))
    /\ DATE(Processed - 1).month = 3

\* C17: after every step of a fresh run over a gap-free stream each point of
\* the current-year path has an angle not below that of the point before it;
\* the February 29 point lies between those of February 28 and March 1.
C17_AnglesNeverDecrease ==
    FreshGapFree =>
        LET p == st._year_plot_current_points
            n == Len(p)
        IN  /\ \A i \in 2..n : p[i][1] >= p[i - 1][1]
            /\ LeapDayPassed =>
                  /\ p[n - 2][1] < p[n - 1][1]
                  /\ p[n - 1][1] < p[n][1]

\* February 28, February 29 and March 1 are the last points of the path
C17_Witness ==
    /\ FreshGapFree
    /\ LeapDayPassed
    /\ LastPoint[1] = 2 * 59
    /\ st._year_plot_current_points[Len(st._year_plot_current_points) - 1][1]
          = 2 * 59 - 1

----------------------------------------------------------------------------
\* the step into this state was a flush step: the current-year path holds
\* the one new sample and the background the years before it
JustFlushed ==
    /\ Drawing
    /\ t >= 2 /\ t <= data_len
    /\ st.flushes >= 1
    /\ Len(st._year_plot_current_points) = 1

\* C18: after every data step, and every pause step that follows one, the
\* marker is the last point of the current-year path, the (angle, value) of
\* the most recently processed sample; after a flush step it is the first
\* point of the new year.
C18_MarkerIsLastPoint ==
    (Drawing /\ t >= 1 /\ data_len >= 1) =>
        /\ Len(st._year_plot_current_points) >= 1
        /\ st.marker = LastPoint
        /\ st.marker[2] = TMAX(Processed - 1)
        /\ st.marker[1] =
              IF IsFeb29(DATE(Processed - 1))
              THEN 2 * st._year_plot_current_day - 1
              ELSE 2 * (st._year_plot_current_day - 1)
        /\ JustFlushed => st.marker = st._year_plot_current_points[1]

\* a flush step has just put the marker on the new year's first point
C18_Witness ==
    /\ JustFlushed
    /\ st.marker = st._year_plot_current_points[1]
    /\ st.marker[2] = TMAX(t - 1)
    /\ st.marker # st._year_plot_all_points[Len(st._year_plot_all_points)]

----------------------------------------------------------------------------
\* C19: the sequencer does not validate its input: for every stream, with
\* missing days, repeated dates or years out of order, every data step ends
\* with exactly one point more, the point of its own sample at the end of the
\* current-year path; no step ends in an error and no sample is skipped.
C19_FailForward ==
    /\ [] (Drawing => Drawn = Processed)
    /\ [] (pc = "error" => t = 0)
    /\ [][ DataStep =>
            LET p == st._year_plot_current_points
                q == st'._year_plot_current_points
            IN  /\ pc' = "animate"
                /\ Len(q) >= 1
                /\ q[Len(q)][2] = TMAX(t)
                /\ Len(st'._year_plot_all_points) + Len(q) = Drawn + 1
                /\ \/ SubSeq(q, 1, Len(q) - 1) = p
                   \/ /\ Len(q) = 1
                      /\ Len(p) >= 1
                      /\ st'.flushes = st.flushes + 1 ]_vars

\* a stream whose years run backwards has been drawn to its last sample
C19_Witness ==
    /\ Drawing
    /\ data.stride = -1
    /\ st.flushes >= 1
    /\ t = data_len
    /\ Drawn = data_len

----------------------------------------------------------------------------
\* the output filename names neither a movie nor a gif
UnsupportedExtension == ~IsMp4 /\ ~IsGif

\* C20: a call whose output filename contains neither ".mp4" nor ".gif" is
\* rejected as an error, with or without a target duration, before any step
\* runs and before any output file is written.
C20_RejectedAtTheBoundary ==
    (UnsupportedExtension /\ pc # "call") =>
        /\ pc = "error"
        /\ t = 0
        /\ written = {}

====
